---- MODULE Spec2Model ----
(***************************************************************************)
(* Recipe recommender: the engine (backend/app/model_utils.py) and the     *)
(* HTTP layer that owns it (backend/app/main.py).                          *)
(*                                                                         *)
(* Texts are sequences of one-character strings.  Scores are fixed-point:  *)
(* the integer n stands for the float n / ScoreScale, a dyadic rational on *)
(* which the float32 arithmetic of the engine is exact.  match_percent is  *)
(* kept in hundredths of a percent (the code rounds it to two decimals).   *)
(* Embeddings have dimension 1, so a normalised embedding is -1, 0 or +1   *)
(* and the inner product with a stored vector is a product of integers.    *)
(***************************************************************************)
EXTENDS Integers, Sequences, FiniteSets, TLC

VARIABLES
    files,        \* the artifacts behind INDEX_PATH, META_PATH and the model name
    pc,           \* "boot" before the startup hook has run, "serving" after
    recommender,  \* main.recommender: None or the loaded RecipeRecommender
    response,     \* the last HTTP exchange: None or the reply and its request
    ret,          \* the last direct recommend call: None or arguments and outcome
    pin           \* one earlier direct recommend call, kept for comparison

vars == <<files, pc, recommender, response, ret, pin>>

(* ------------------------------ bounds -------------------------------- *)

\* Largest number of catalog rows / index vectors in the artifacts on disk.
MaxN == 3

\* Largest top_k a caller passes.
MaxTopK == 4

\* Query.top_k = Field(5, ge=1, le=50)
TopKGe == 1
TopKLe == 50

\* def recommend(self, user_input: str, top_k: int = 10)
DefaultTopK == 10

\* One unit of score is 1 / ScoreScale.
ScoreScale == 2 ^ 4

\* Components of the stored vectors: below -1, exactly -1, and inside the unit
\* interval.  The query embedding is +1, -1 or 0, so the scores they give
\* also cover above +1, exactly +1 and 0.
VecValues == {0 - ScoreScale - 1, 0 - ScoreScale, 5}

(* ------------------------------ values -------------------------------- *)

\* Python's None and a present object, as sequences of length 0 and 1.
None == <<>>
Some(x) == <<x>>

Ok(v) == [kind |-> "ok", exc |-> "", value |-> v]
Raise(e) == [kind |-> "raise", exc |-> e, value |-> <<>>]

Max(a, b) == IF a >= b THEN a ELSE b
Min(a, b) == IF a <= b THEN a ELSE b

(* ------------------------------- text --------------------------------- *)

IsSpace(c) == c = " "

\* str.lower()
LowerChar(c) == IF c = "A" THEN "a" ELSE IF c = "B" THEN "b" ELSE c
Lower(t) == [i \in 1..Len(t) |-> LowerChar(t[i])]

\* str.strip(): drop leading and trailing whitespace
RECURSIVE LStrip(_)
LStrip(t) == IF t # <<>> /\ IsSpace(Head(t)) THEN LStrip(Tail(t)) ELSE t
RECURSIVE RStrip(_)
RStrip(t) ==
    IF t # <<>> /\ IsSpace(t[Len(t)]) THEN RStrip(SubSeq(t, 1, Len(t) - 1)) ELSE t
Strip(t) == RStrip(LStrip(t))

(* ---------------------------- artifacts ------------------------------- *)

\* metadata.csv: row i (position i - 1) of the catalog
RowIngredients(i) ==
    IF i % 3 = 1 THEN <<"a">>
    ELSE IF i % 3 = 2 THEN <<"b">>
    ELSE <<"a", " ", "b">>
Row(i) == [id |-> 100 + i, ingredients |-> RowIngredients(i)]
Catalog(n) == [i \in 1..n |-> Row(i)]

RECURSIVE SeqsUpTo(_, _)
SeqsUpTo(S, n) ==
    IF n = 0 THEN {<<>>}
    ELSE LET shorter == SeqsUpTo(S, n - 1)
         IN  shorter \cup {Append(s, x) : s \in {u \in shorter : Len(u) = n - 1}, x \in S}

\* The files a deployment can find on disk: each artifact is readable
\* (Some content) or not (None).
MetaFiles == {None} \cup {Some(Catalog(n)) : n \in 0..MaxN}
IndexFiles == {None} \cup {Some(xb) : xb \in SeqsUpTo(VecValues, MaxN)}

\* The three artifacts: the catalog CSV, whether the embedding model can be
\* loaded, and the FAISS index.
FileSets == [meta : MetaFiles, model : BOOLEAN, index : IndexFiles]

(* ------------------- RecipeRecommender (model_utils.py) ---------------- *)

\* RecipeRecommender.__init__: read_csv, SentenceTransformer, read_index, in
\* this order; the first one that fails raises.  Nothing else is checked.
RecipeRecommender_init(f) ==
    IF f.meta = None THEN Raise("FileNotFoundError")
    ELSE IF ~f.model THEN Raise("OSError")
    ELSE IF f.index = None THEN Raise("RuntimeError")
    ELSE Ok([meta |-> f.meta[1], index |-> f.index[1], dim |-> 1])

\* SentenceTransformer.encode on one text: a fixed, deterministic encoder of
\* dimension 1 (the a's of the text minus its b's).
RECURSIVE ModelEncode(_)
ModelEncode(text) ==
    IF text = <<>> THEN 0
    ELSE (IF Head(text) = "a" THEN 1 ELSE IF Head(text) = "b" THEN 0 - 1 ELSE 0)
         + ModelEncode(Tail(text))

\* faiss.normalize_L2 in dimension 1: x / |x|, the zero vector left as it is.
normalize_L2(x) == IF x > 0 THEN 1 ELSE IF x < 0 THEN 0 - 1 ELSE 0

embed_text(self, text) == normalize_L2(ModelEncode(text))

\* The score FAISS gives an unfilled slot (-FLT_MAX for inner product): below
\* every real score.
PadScore == 0 - (2 ^ 14)

\* index.ntotal
ntotal(index) == Len(index)

InnerProduct(emb, v) == emb * v

\* index.search keeps the k best hits in a binary heap whose top is its worst
\* entry: the lowest score and, among equal scores, the lowest position.
HeapTop(heap) ==
    CHOOSE e \in heap : \A f \in heap :
        \/ e.score < f.score
        \/ e.score = f.score /\ e.idx <= f.idx

\* One scanned vector: it fills a free slot, or replaces the top when its
\* score is strictly higher than the top's.
HeapAdd(heap, k, e) ==
    IF Cardinality(heap) < k THEN heap \cup {e}
    ELSE IF HeapTop(heap).score < e.score THEN (heap \ {HeapTop(heap)}) \cup {e}
    ELSE heap

\* The scan of the stored vectors from position p (1-based) on, in order.
RECURSIVE HeapScan(_, _, _, _, _)
HeapScan(index, emb, k, p, heap) ==
    IF p > ntotal(index) THEN heap
    ELSE HeapScan(index, emb, k, p + 1,
            HeapAdd(heap, k, [score |-> InnerProduct(emb, index[p]), idx |-> p - 1]))

\* The heap is emptied from its top into the result from the back, so an
\* entry comes after those of higher score and, among equal scores, after
\* those of higher position.
RankIn(heap, e) ==
    Cardinality({f \in heap :
        \/ f.score > e.score
        \/ f.score = e.score /\ f.idx > e.idx})

\* index.search(emb, k): k slots of (score, position), positions 0-based, best
\* first; the slots that stay unfilled hold position -1.
search(index, emb, k) ==
    LET heap == HeapScan(index, emb, k, 1, {})
    IN  [i \in 1..k |->
            IF i <= Cardinality(heap)
            THEN CHOOSE e \in heap : RankIn(heap, e) = i - 1
            ELSE [score |-> PadScore, idx |-> 0 - 1]]

\* self.meta.iloc[idx]: positional lookup, negative positions count from the
\* end, anything outside raises IndexError.
iloc(meta, idx) ==
    IF 0 <= idx /\ idx < Len(meta) THEN Ok(meta[idx + 1])
    ELSE IF idx < 0 /\ 0 - idx <= Len(meta) THEN Ok(meta[Len(meta) + idx + 1])
    ELSE Raise("IndexError")

\* round(x, 2) of the exact rational a / b, in hundredths: nearest, ties to even.
RoundHalfEven(a, b) ==
    LET q == a \div b
        r == a % b
    IN  IF 2 * r < b THEN q
        ELSE IF 2 * r > b THEN q + 1
        ELSE IF q % 2 = 0 THEN q ELSE q + 1

\* Mutant: the shift by one is forgotten, max(0.0, score / 2 * 100.0).
match_percent_noshift(score) ==
    LET num == Max(0, score * 100)
        den == 2 * ScoreScale
    IN  RoundHalfEven(num * 100, den)

\* percent = max(0.0, float((score + 1) / 2 * 100.0)); round(percent, 2).
\* The result is in hundredths of a percent.
match_percent(score) ==
    LET num == Max(0, (score + ScoreScale) * 100)
        den == 2 * ScoreScale
    IN  RoundHalfEven(num * 100, den)

\* The row dictionary appended for one hit.
ResultRow(row, score) ==
    [id |-> row.id, ingredients |-> row.ingredients,
     similarity_score |-> score, match_percent |-> match_percent(score)]

\* The loop over zip(D[0], I[0]): skip the slots with position -1, look the
\* others up and append them in the order the index gave them.
RECURSIVE Assemble(_, _, _)
Assemble(meta, hits, results) ==
    IF hits = <<>> THEN Ok(results)
    ELSE IF Head(hits).idx = 0 - 1 THEN Assemble(meta, Tail(hits), results)
    ELSE LET row == iloc(meta, Head(hits).idx)
         IN  IF row.kind = "raise" THEN row
             ELSE Assemble(meta, Tail(hits),
                           Append(results, ResultRow(row.value, Head(hits).score)))

\* RecipeRecommender.recommend(user_input, top_k)
RecipeRecommender_recommend(self, user_input, top_k) ==
    Assemble(self.meta, search(self.index, embed_text(self, user_input), top_k), <<>>)

\* The parameters recommend can be called with by keyword.
RecommendParams == {"user_input", "top_k"}

\* A call of recommend with keyword arguments kwargs (a record): Python binds
\* the arguments before it runs the body and raises TypeError for a name the
\* signature does not have or a missing required one.
call_recommend(self, kwargs) ==
    IF ~(DOMAIN kwargs \subseteq RecommendParams) \/ "user_input" \notin DOMAIN kwargs
    THEN Raise("TypeError")
    ELSE RecipeRecommender_recommend(self, kwargs.user_input,
            IF "top_k" \in DOMAIN kwargs THEN kwargs.top_k ELSE DefaultTopK)

(* ----------------------------- main.py --------------------------------- *)

\* The ingredients texts clients send, and the texts the engine is called
\* with directly.
RequestTexts == {<<>>, <<" ">>, <<" ", "A", " ">>, <<"b">>, <<"a", " ", "B">>}
EngineTexts == {<<"a">>, <<"b">>, <<"a", " ", "b">>}

\* Query: ingredients is any text, top_k is validated to ge=1, le=50 before
\* the handler runs.
Queries ==
    [ingredients : RequestTexts, top_k : TopKGe..Min(MaxTopK, TopKLe)]

\* Recipe: similarity_score in [-1.0, 1.0], match_percent in [0.0, 100.0].
RecipeValid(r) ==
    /\ 0 - ScoreScale <= r.similarity_score
    /\ r.similarity_score <= ScoreScale
    /\ 0 <= r.match_percent
    /\ r.match_percent <= 100 * 100

\* RecommendResponse(query=..., results=results): pydantic validates every
\* result against Recipe and raises ValidationError otherwise.
RecommendResponse(results) ==
    IF \A i \in 1..Len(results) : RecipeValid(results[i])
    THEN Ok(results)
    ELSE Raise("ValidationError")

Reply(endpoint, status, detail, results, q, call) ==
    Some([endpoint |-> endpoint, status |-> status, detail |-> detail,
          results |-> results, q |-> q, call |-> call])

\* Mutant: the text is lower-cased but not trimmed.
UserText_nostrip(q) == Lower(q.ingredients)

\* q.ingredients.strip().lower()
UserText(q) == Lower(Strip(q.ingredients))

\* The keyword arguments the handler passes to recommender.recommend.
HandlerKwargs(q) ==
    [user_input |-> UserText(q), top_k |-> q.top_k, require_exact_token |-> TRUE]

\* Mutant: the except clause answers with an empty successful list.
TryRecommend_swallow(self, q) ==
    LET kwargs == HandlerKwargs(q)
        out == call_recommend(self, kwargs)
        call == Some([kwargs |-> kwargs, out |-> out])
    IN  IF out.kind = "raise" \/ out.value = <<>>
        THEN Reply("recommend", 200, "none found", <<>>, Some(q), call)
        ELSE IF RecommendResponse(out.value).kind = "raise"
        THEN Reply("recommend", 200, "none found", <<>>, Some(q), call)
        ELSE Reply("recommend", 200, "", out.value, Some(q), call)

\* The body of the handler's try block and its except clause.
TryRecommend(self, q) ==
    LET kwargs == HandlerKwargs(q)
        out == call_recommend(self, kwargs)
        call == Some([kwargs |-> kwargs, out |-> out])
    IN  IF out.kind = "raise"
        THEN Reply("recommend", 500, "error", <<>>, Some(q), call)
        ELSE IF out.value = <<>>
        THEN Reply("recommend", 200, "none found", <<>>, Some(q), call)
        ELSE IF RecommendResponse(out.value).kind = "raise"
        THEN Reply("recommend", 500, "error", <<>>, Some(q), call)
        ELSE Reply("recommend", 200, "", out.value, Some(q), call)

Init ==
    /\ files \in FileSets
    /\ pc = "boot"
    /\ recommender = None
    /\ response = None
    /\ ret = None
    /\ pin = None

\* Mutant: the engine object is published before its artifacts are loaded,
\* and a failed load leaves it in place with what was loaded so far.
startup_event_partial ==
    /\ pc = "boot"
    /\ pc' = "serving"
    /\ recommender' =
         Some([meta |-> IF files.meta = None THEN <<>> ELSE files.meta[1],
               index |-> IF files.meta = None \/ ~files.model \/ files.index = None
                         THEN <<>>
                         ELSE files.index[1],
               dim |-> 1])
    /\ UNCHANGED <<files, response, ret, pin>>

\* @app.on_event("startup")
startup_event ==
    /\ pc = "boot"
    /\ pc' = "serving"
    /\ LET made == RecipeRecommender_init(files)
       IN  recommender' = IF made.kind = "ok" THEN Some(made.value) ELSE None
    /\ UNCHANGED <<files, response, ret, pin>>

\* GET /health
health ==
    /\ pc = "serving"
    /\ response' = Reply("health", 200,
                         IF recommender # None THEN "ok" ELSE "degraded",
                         <<>>, None, None)
    /\ UNCHANGED <<files, pc, recommender, ret, pin>>

\* POST /recommend
recommend(q) ==
    /\ pc = "serving"
    /\ response' =
         IF recommender = None
         THEN Reply("recommend", 503, "unavailable", <<>>, Some(q), None)
         ELSE IF UserText(q) = <<>>
         THEN Reply("recommend", 400, "empty", <<>>, Some(q), None)
         ELSE TryRecommend(recommender[1], q)
    /\ UNCHANGED <<files, pc, recommender, ret, pin>>

\* Mutant: every call also adds the query embedding to the index,
\* self.index.add(emb).
engine_recommend_add(user_input, top_k) ==
    /\ pc = "serving"
    /\ recommender # None
    /\ LET this == Some([user_input |-> user_input, top_k |-> top_k,
                         out |-> call_recommend(recommender[1],
                                    [user_input |-> user_input, top_k |-> top_k])])
       IN  /\ ret' = this
           /\ pin' \in {pin} \cup (IF pin = None THEN {this} ELSE {})
    /\ recommender' =
         IF ntotal(recommender[1].index) <= MaxN
         THEN Some([recommender[1] EXCEPT !.index =
                 Append(@, ScoreScale * embed_text(recommender[1], user_input))])
         ELSE recommender
    /\ UNCHANGED <<files, pc, response>>

\* A direct call recommender.recommend(user_input, top_k) on the loaded
\* engine.  pin keeps one earlier call and what it returned.
engine_recommend(user_input, top_k) ==
    /\ pc = "serving"
    /\ recommender # None
    /\ LET this == Some([user_input |-> user_input, top_k |-> top_k,
                         out |-> call_recommend(recommender[1],
                                    [user_input |-> user_input, top_k |-> top_k])])
       IN  /\ ret' = this
           /\ pin' \in {pin} \cup (IF pin = None THEN {this} ELSE {})
    /\ UNCHANGED <<files, pc, recommender, response>>

Requests == \E q \in Queries : recommend(q)

EngineCalls ==
    \E user_input \in EngineTexts, top_k \in 1..MaxTopK :
        engine_recommend(user_input, top_k)

\* The service: startup, then requests.
Next == startup_event \/ health \/ Requests

Spec == Init /\ [][Next]_vars

\* The engine used as a library: startup, then direct calls.
EngineNext == startup_event \/ EngineCalls

EngineSpec == Init /\ [][EngineNext]_vars

(* ------------------------------ properties ---------------------------- *)

Serving == pc = "serving"
Ready == recommender # None

\* The last HTTP exchange, when it was a POST /recommend.
Recommended == response # None /\ response[1].endpoint = "recommend"

\* The result rows of a recorded direct call that returned a list.
RowsOf(c) ==
    IF c # None /\ c[1].out.kind = "ok"
    THEN {c[1].out.value[i] : i \in 1..Len(c[1].out.value)}
    ELSE {}

\* The 0-based catalog position a result row was read from.
PositionOf(r) == r.id - 100 - 1

\* The whitespace-separated tokens of a text.
RECURSIVE SplitFrom(_, _, _)
SplitFrom(t, cur, acc) ==
    IF t = <<>> THEN (IF cur = <<>> THEN acc ELSE Append(acc, cur))
    ELSE IF IsSpace(Head(t))
         THEN SplitFrom(Tail(t), <<>>, IF cur = <<>> THEN acc ELSE Append(acc, cur))
         ELSE SplitFrom(Tail(t), Append(cur, Head(t)), acc)
Split(t) == SplitFrom(t, <<>>, <<>>)
Tokens(t) == {Split(t)[i] : i \in 1..Len(Split(t))}

\* text contains tok as a substring
Contains(text, tok) ==
    \E i \in 1..Len(text) : i + Len(tok) - 1 <= Len(text)
                            /\ SubSeq(text, i, i + Len(tok) - 1) = tok

\* C1: started with an index whose number of vectors differs from the number
\* of catalog rows, the service exposes no engine and no recommend request
\* reaches one.
C1_SizeMismatchRejected ==
    (/\ Serving
     /\ files.meta # None /\ files.index # None
     /\ ntotal(files.index[1]) # Len(files.meta[1]))
    => /\ recommender = None
       /\ Recommended => response[1].call = None

\* C2: a request that reaches the engine with the exact-token filter is
\* answered successfully, and every result's ingredients contain a token of
\* the lower-cased query (an empty list when none does, never an error).
C2_ExactTokenFilter ==
    (Recommended /\ response[1].call # None)
    => /\ response[1].status = 200
       /\ \A i \in 1..Len(response[1].results) :
            \E tok \in Tokens(response[1].call[1].kwargs.user_input) :
                Contains(response[1].results[i].ingredients, tok)

\* C3: after a startup in which loading the model, the index or the catalog
\* failed, the service runs without an engine: health reports degraded and
\* every recommend request gets 503 without any call into the engine.
C3_FailedStartupNotReady ==
    (Serving /\ RecipeRecommender_init(files).kind = "raise")
    => /\ recommender = None
       /\ response # None =>
            /\ response[1].endpoint = "health" => response[1].detail = "degraded"
            /\ response[1].endpoint = "recommend" =>
                 response[1].status = 503 /\ response[1].call = None

C3_Witness ==
    /\ Serving
    /\ RecipeRecommender_init(files).kind = "raise"
    /\ Recommended
    /\ response[1].status = 503

\* C4: when the call into the engine raises, the response is a failure; a
\* successful response with an empty list comes only from a call that
\* returned an empty list.
C4_EngineErrorsPropagate ==
    (Recommended /\ response[1].call # None)
    => /\ response[1].call[1].out.kind = "raise" => response[1].status = 500
       /\ (response[1].status = 200 /\ response[1].results = <<>>)
            => response[1].call[1].out = Ok(<<>>)

C4_Witness ==
    /\ Recommended
    /\ response[1].call # None
    /\ response[1].call[1].out.kind = "raise"
    /\ response[1].status = 500

\* C5: a direct recommend call returns a list of at most min(top_k, N) rows,
\* none of them read for a sentinel slot, and with top_k > N exactly the N
\* records, without raising (N the number of indexed vectors).
C5_LengthAtMostMinTopKN ==
    (ret # None /\ Ready)
    => LET n == ntotal(recommender[1].index)
           out == ret[1].out
       IN  /\ out.kind = "ok" =>
                /\ Len(out.value) <= Min(ret[1].top_k, n)
                /\ \A r \in RowsOf(ret) : r.similarity_score # PadScore
           /\ ret[1].top_k > n => out.kind = "ok" /\ Len(out.value) = n

\* The hits of the search behind a recorded direct call, sentinel slots dropped.
SurvivingHits(c) ==
    SelectSeq(search(recommender[1].index,
                     embed_text(recommender[1], c[1].user_input), c[1].top_k),
              LAMBDA h : h.idx # 0 - 1)

\* C6: the returned list is in the order of the index, which is
\* non-increasing score with equal scores in ascending position, and it is
\* exactly the non-sentinel hits of the search in their order.
C6_IndexOrderAscendingTies ==
    (ret # None /\ Ready /\ ret[1].out.kind = "ok")
    => LET rs == ret[1].out.value
           hits == SurvivingHits(ret)
       IN  /\ \A i, j \in 1..Len(rs) : i < j =>
                \/ rs[i].similarity_score > rs[j].similarity_score
                \/ /\ rs[i].similarity_score = rs[j].similarity_score
                   /\ PositionOf(rs[i]) < PositionOf(rs[j])
           /\ Len(rs) = Len(hits)
           /\ \A i \in 1..Len(rs) :
                /\ PositionOf(rs[i]) = hits[i].idx
                /\ rs[i].similarity_score = hits[i].score

\* C7: over all rows produced, a higher similarity_score never has a lower
\* match_percent, and scores -1.0, 0.0 and 1.0 give 0.0, 50.0 and 100.0.
C7_MatchPercentMonotonic ==
    /\ \A r1, r2 \in RowsOf(ret) \cup RowsOf(pin) :
         r1.similarity_score <= r2.similarity_score
            => r1.match_percent <= r2.match_percent
    /\ \A r \in RowsOf(ret) \cup RowsOf(pin) :
         /\ r.similarity_score = 0 - ScoreScale => r.match_percent = 0
         /\ r.similarity_score = 0 => r.match_percent = 50 * 100
         /\ r.similarity_score = ScoreScale => r.match_percent = 100 * 100

C7_Witness ==
    /\ \E r \in RowsOf(pin) : r.similarity_score = 0 - ScoreScale
    /\ \E r \in RowsOf(pin) : r.similarity_score < 0 - ScoreScale
    /\ \E r \in RowsOf(pin) : r.similarity_score = 5
    /\ \E r \in RowsOf(ret) : r.similarity_score = ScoreScale
    /\ \E r \in RowsOf(ret) : r.similarity_score = 0 - 5

\* C8: every row produced has similarity_score in [-1.0, 1.0] and
\* match_percent in [0.0, 100.0], the bounds of the Recipe schema.
C8_ResultsWithinSchemaBounds ==
    \A r \in RowsOf(ret) : RecipeValid(r)

\* C9: the loaded engine stays as it was constructed, and a call with the
\* arguments of an earlier call returns what the earlier call returned,
\* whatever calls came in between.
C9_Idempotent ==
    /\ (Serving /\ Ready) => recommender[1] = RecipeRecommender_init(files).value
    /\ (ret # None /\ pin # None
        /\ ret[1].user_input = pin[1].user_input /\ ret[1].top_k = pin[1].top_k)
       => ret[1].out = pin[1].out

C9_Witness ==
    /\ ret # None /\ pin # None
    /\ ret[1].user_input = pin[1].user_input /\ ret[1].top_k = pin[1].top_k
    /\ ret[1].out.kind = "ok"
    /\ Len(ret[1].out.value) >= 2

\* C10: the handler calls the engine only with a query that is non-empty
\* after trimming; an empty one gets 400 with no call, and only when the
\* engine is loaded: without it the answer is 503 whatever the query.
C10_EmptyQueryRejected ==
    Recommended
    => /\ ~Ready => response[1].status = 503 /\ response[1].call = None
       /\ (Ready /\ Strip(response[1].q[1].ingredients) = <<>>)
            => response[1].status = 400 /\ response[1].call = None
       /\ response[1].status = 400 => Ready
       /\ response[1].call # None =>
            Strip(response[1].call[1].kwargs.user_input) # <<>>

C10_Witness ==
    /\ Recommended
    /\ Ready
    /\ response[1].q[1].ingredients = <<" ">>
    /\ response[1].status = 400

====
